---- MODULE Spec2Model ----
(***************************************************************************)
(* Model of the WebP reader WebpInput (src/src/webp.imageio/webpinput.cpp): *)
(* the session fields, open / seek_subimage / read_native_scanline /       *)
(* current_subimage / close / the destructor, the heap objects they own    *)
(* (file handle, demuxer, decoded rasters, the encoded byte buffer) and    *)
(* the external libwebp calls they make.                                   *)
(***************************************************************************)
EXTENDS Integers, Sequences, FiniteSets, TLC

\* ---------------------------------------------------------------- bounds
MaxFrames == 2      \* frames of an animated container
MaxLive   == 3      \* cap on heap objects of one kind allocated and not freed
CanvasW   == 1      \* canvas width of every container, in pixels
CanvasH   == 2      \* canvas height of every container, in pixels

\* ------------------------------------------------------ program constants
nchannels    == 4   \* RGBA
MinHeader    == 12  \* smallest file that can hold a WebP header
HeaderProbe  == 64  \* bytes read for the header probe
RateNum      == 1000

NULL == "NULL"
Threads == {1, 2}

\* ------------------------------------------------------------ containers
\* What WebPDemux makes of a file: the number of frames, the frames whose
\* bitstream the decoder rejects, the duration of every frame (in ms), and
\* whether the frames after the first cover only a sub-rectangle of the
\* canvas.  The containers tried: no frame, one frame, or an animation of
\* MaxFrames frames; none, the first or the last frame undecodable; a
\* duration that differs with the frame count.
NoContainer == [nframes |-> 0, bad |-> {}, duration |-> 0, subrect |-> FALSE]

BadSets(n) == {{}, {0}, {n - 1}}

DurationOf(n) == 20 + 40 * n

Containers ==
  {NoContainer} \cup
  UNION {{[nframes |-> n, bad |-> b, duration |-> DurationOf(n),
           subrect |-> FALSE] : b \in BadSets(n)} : n \in {1, MaxFrames}}
  \cup {[nframes |-> MaxFrames, bad |-> {}, duration |-> DurationOf(MaxFrames),
          subrect |-> TRUE]}

\* The files open is given.  kind says how far open gets with the file.
FailKinds == {"notregular", "nosize", "small", "nofopen", "shortheader",
              "notwebp", "shortread", "nodemux"}

FileSize(kind) == CASE kind = "nosize" -> -1
                    [] kind = "small"  -> MinHeader - 1
                    [] OTHER           -> HeaderProbe + 1

Files == {[kind |-> k, c |-> NoContainer] : k \in FailKinds}
         \cup {[kind |-> "ok", c |-> c] : c \in Containers}

\* ------------------------------------------------------- decoded rasters
FrameW(c, k) == CanvasW
FrameH(c, k) == IF c.subrect /\ k > 0 THEN CanvasH - 1 ELSE CanvasH

\* The straight-alpha RGBA pixel the decoder produces at (x, y) of frame k.
Pixel(c, k, x, y) ==
  << (250 - 60 * k) % 256,
     (100 + 20 * c.nframes + x) % 256,
     (10 + 100 * y) % 256,
     CASE (k + y) % 3 = 0 -> 255
       [] (k + y) % 3 = 1 -> 128
       [] OTHER           -> 0 >>

\* The byte buffer of w*h*4 bytes WebPDecodeRGBA returns, row by row.
PixelBytes(c, k, w, h) ==
  [i \in 1..(w * h * nchannels) |->
     LET p  == (i - 1) \div nchannels
         ch == (i - 1) % nchannels
     IN  Pixel(c, k, p % w, p \div w)[ch + 1]]

Raster(c, k) ==
  [w |-> FrameW(c, k), h |-> FrameH(c, k),
   px |-> PixelBytes(c, k, FrameW(c, k), FrameH(c, k)),
   norm |-> 0]

\* What a decode of freed bytes may leave behind: a raster of the frame's
\* size holding none of the frame's pixels.
GarbageRaster(c, k) ==
  [w |-> FrameW(c, k), h |-> FrameH(c, k),
   px |-> [i \in 1..(FrameW(c, k) * FrameH(c, k) * nchannels) |-> 170],
   norm |-> 0]

\* ------------------------------------------------------- color normalizer
Isqrt(x) == CHOOSE r \in 0..255 : r * r <= x /\ x < (r + 1) * (r + 1)
ReencodeTable == [v \in 0..255 |-> Isqrt(v * 255)]

\* pow(2.2), premult, pow(1/2.2) on one 8-bit sample, each step rounded to
\* 8 bits as the in-place ImageBuf does.  Integer arithmetic has no 2.2:
\* the exponent is taken as 2.
Linearize(v)   == (v * v + 127) \div 255
Premult(v, a)  == (v * a + 127) \div 255
Reencode(v)    == ReencodeTable[v]
NormChannel(v, a) == Reencode(Premult(Linearize(v), a))

\* The three passes over the w x h region of the buffer: RGB of every pixel
\* goes through NormChannel with the pixel's alpha, alpha stays.
NormalizeBytes(px, w, h) ==
  [i \in 1..Len(px) |->
     LET p  == (i - 1) \div nchannels
         ch == (i - 1) % nchannels
     IN  IF ch = 3 \/ p >= w * h THEN px[i]
         ELSE NormChannel(px[i], px[p * nchannels + 4])]

Normalize(img, w, h) ==
  [img EXCEPT !.px = NormalizeBytes(img.px, w, h), !.norm = @ + 1]

\* ---------------------------------------------------------- session state
VARIABLES
  m_demux,          \* "NULL", "live" (points at a demuxer) or "freed" (dangling)
  dmx,              \* the container the demuxer m_demux points at was built from
  m_iter,           \* frame iterator, as WebPDemuxGetFrame last left it
  m_subimage,       \* the current subimage, -1 before any
  m_decoded_image,  \* the decoded raster, NullImage for a null pointer
  m_scanline_size,
  m_file,           \* "NULL" or "open"
  m_spec,           \* the reader's ImageSpec
  spec,             \* the ImageSpec open copied out to its caller
  encoded_live,     \* the encoded_image vector the demuxer reads from is allocated
  images,           \* decoded rasters allocated and not freed
  demuxers,         \* demuxers allocated and not deleted
  files,            \* file handles opened and not closed
  ub,               \* undefined behaviour has been executed
  doubleFree,       \* a resource has been released twice
  crashed,          \* the process has died
  sess,             \* "Unopened", "Ready", "Failed", "Closed", "Destroyed"
  last,             \* the last call, its arguments and what it returned
  decodes,          \* WebPDecodeRGBA calls made since m_subimage last changed
  opens,            \* open calls made so far
  pc,               \* per thread: "idle" or the body the thread is inside
  args,             \* per thread: the arguments of the call it is inside
  lock              \* the thread holding m_mutex, 0 if free

fields == <<m_demux, dmx, m_iter, m_subimage, m_decoded_image,
            m_scanline_size, m_file, m_spec, spec, encoded_live,
            images, demuxers, files, ub, doubleFree, crashed>>
threads == <<pc, args, lock>>
vars == <<fields, sess, last, decodes, opens, threads>>

NullImage == [w |-> 0, h |-> 0, px |-> <<>>, norm |-> 0]
ZeroIter == [frame_num |-> 0, num_frames |-> 0, duration |-> 0]
NoSpec == [width |-> 0, height |-> 0, nchannels |-> 0, colorspace |-> "",
           movie |-> FALSE, fps |-> <<>>]
NoArgs == [sub |-> 0, mip |-> 0, y |-> 0]
NoCall == [op |-> "none", sub |-> 0, mip |-> 0, y |-> 0, ret |-> TRUE,
           val |-> 0, gf |-> 0, dec |-> 0, err |-> FALSE, closed |-> FALSE,
           data |-> <<>>]

\* The session as one value, for the operators that compute a call's effect.
Cur ==
  [m_demux |-> m_demux, dmx |-> dmx,
   m_iter |-> m_iter, m_subimage |-> m_subimage,
   m_decoded_image |-> m_decoded_image,
   m_scanline_size |-> m_scanline_size, m_file |-> m_file, m_spec |-> m_spec,
   spec |-> spec, encoded_live |-> encoded_live, images |-> images,
   demuxers |-> demuxers, files |-> files, ub |-> ub,
   doubleFree |-> doubleFree, crashed |-> crashed]

Commit(s) ==
  /\ m_demux' = s.m_demux
  /\ dmx' = s.dmx
  /\ m_iter' = s.m_iter
  /\ m_subimage' = s.m_subimage
  /\ m_decoded_image' = s.m_decoded_image
  /\ m_scanline_size' = s.m_scanline_size
  /\ m_file' = s.m_file
  /\ m_spec' = s.m_spec
  /\ spec' = s.spec
  /\ encoded_live' = s.encoded_live
  /\ images' = s.images
  /\ demuxers' = s.demuxers
  /\ files' = s.files
  /\ ub' = s.ub
  /\ doubleFree' = s.doubleFree
  /\ crashed' = s.crashed

\* WebpInput::init, run by the constructor.
init ==
  /\ m_demux = NULL
  /\ dmx = NoContainer
  /\ m_iter = ZeroIter
  /\ m_subimage = -1
  /\ m_decoded_image = NullImage
  /\ m_scanline_size = 0
  /\ m_file = NULL
  /\ m_spec = NoSpec
  /\ spec = NoSpec
  /\ encoded_live = FALSE
  /\ images = 0
  /\ demuxers = 0
  /\ files = 0
  /\ ub = FALSE
  /\ doubleFree = FALSE
  /\ crashed = FALSE

Init ==
  /\ init
  /\ sess = "Unopened"
  /\ last = NoCall
  /\ decodes = 0
  /\ opens = 0
  /\ pc = [t \in Threads |-> "idle"]
  /\ args = [t \in Threads |-> NoArgs]
  /\ lock = 0

\* A call's outcome: the session it leaves, what it returned, the
\* WebPDemuxGetFrame and WebPDecodeRGBA calls it made, whether it recorded
\* an error message, whether it ran close, and the bytes it copied out.
Outcome(s, ret, gf, dec, err, closed) ==
  [s |-> s, ret |-> ret, gf |-> gf, dec |-> dec, err |-> err,
   closed |-> closed, data |-> <<>>]

\* The reader object with every member as init leaves it and nothing on the
\* heap: what stands for the members once the object or the process is gone.
Gone ==
  [m_demux |-> NULL, dmx |-> NoContainer, m_iter |-> ZeroIter,
   m_subimage |-> -1, m_decoded_image |-> NullImage, m_scanline_size |-> 0,
   m_file |-> NULL, m_spec |-> NoSpec, spec |-> NoSpec,
   encoded_live |-> FALSE, images |-> 0, demuxers |-> 0, files |-> 0,
   ub |-> FALSE, doubleFree |-> FALSE, crashed |-> FALSE]

\* The process dies of the undefined behaviour it ran into.
Crash(s) == [Gone EXCEPT !.ub = TRUE, !.doubleFree = s.doubleFree,
                         !.crashed = TRUE]

\* ------------------------------------------------------------------ close
closeFile(s) ==
  IF s.m_file # NULL THEN [s EXCEPT !.m_file = NULL, !.files = @ - 1] ELSE s

closeImage(s) ==
  IF s.m_decoded_image # NullImage
  THEN [s EXCEPT !.m_decoded_image = NullImage, !.images = @ - 1]
  ELSE s

\* WebPDemuxDelete on m_demux, which is left as it was: deleting a demuxer
\* that was deleted before is a double free, which the process may or may
\* not survive.
closeDemux(s) ==
  CASE s.m_demux = NULL    -> {s}
    [] s.m_demux = "live"  -> {[s EXCEPT !.m_demux = "freed",
                                         !.demuxers = @ - 1]}
    [] OTHER               -> {[s EXCEPT !.ub = TRUE, !.doubleFree = TRUE],
                               Crash([s EXCEPT !.doubleFree = TRUE])}

close(s) == closeDemux(closeImage(closeFile(s)))

\* ---------------------------------------------------------- libwebp calls
IterOf(c, n) == [frame_num |-> n, num_frames |-> c.nframes,
                 duration |-> c.duration]

\* WebPDemuxGetFrame(m_demux, frame_num, &m_iter): m_iter is cleared, then
\* filled in if the demuxer has a frame of that number.  A null demuxer has
\* none; a deleted demuxer is read after free.
WebPDemuxGetFrame(s, frame_num) ==
  LET hit  == [found |-> TRUE, iter |-> IterOf(s.dmx, frame_num),
               ub |-> FALSE, crashed |-> FALSE]
      miss == [found |-> FALSE, iter |-> ZeroIter, ub |-> FALSE,
               crashed |-> FALSE]
      real == IF 1 <= frame_num /\ frame_num <= s.dmx.nframes THEN hit
              ELSE miss
  IN  CASE s.m_demux = NULL   -> {miss}
        [] s.m_demux = "live" -> {real}
        [] OTHER -> {[real EXCEPT !.ub = TRUE], [miss EXCEPT !.ub = TRUE],
                     [miss EXCEPT !.ub = TRUE, !.crashed = TRUE]}

\* WebPDecodeRGBA on the bytes of frame k of container c.  The bytes lie in
\* open's encoded_image vector: once that is gone the decoder reads freed
\* memory, and may find the frame still there, find something it rejects,
\* decode something else, or fault.
WebPDecodeRGBA(c, k, live) ==
  LET real == [img |-> IF k \in c.bad THEN NullImage ELSE Raster(c, k),
               ub |-> FALSE, crashed |-> FALSE]
  IN  IF live THEN {real}
      ELSE {[real EXCEPT !.ub = TRUE],
            [img |-> NullImage, ub |-> TRUE, crashed |-> FALSE],
            [img |-> GarbageRaster(c, k), ub |-> TRUE, crashed |-> FALSE],
            [img |-> NullImage, ub |-> TRUE, crashed |-> TRUE]}

\* ---------------------------------------------------------- seek_subimage
\* Lines 185-194: m_subimage is set, the decoder's result is stored over
\* m_decoded_image, and a null result closes the session.
SeekDecode(s, subimage, d) ==
  LET s1 == [s EXCEPT !.m_subimage = subimage,
                      !.m_decoded_image = d.img,
                      !.images = IF d.img # NullImage THEN @ + 1 ELSE @,
                      !.ub = @ \/ d.ub]
  IN  IF d.crashed
      THEN {Outcome(Crash(s), FALSE, 1, 1, FALSE, FALSE)}
      ELSE IF d.img = NullImage
      THEN {Outcome(c, FALSE, 1, 1, TRUE, TRUE) : c \in close(s1)}
      ELSE {Outcome(s1, TRUE, 1, 1, FALSE, FALSE)}

\* SeekFrame with m_subimage assigned before the frame lookup is known to
\* have succeeded.
SeekFrameCommitsFirst(s, subimage, g) ==
  LET s1 == [s EXCEPT !.m_iter = g.iter, !.ub = @ \/ g.ub,
                      !.m_subimage = subimage]
  IN  IF g.crashed THEN {Outcome(Crash(s), FALSE, 1, 0, FALSE, FALSE)}
      ELSE IF ~g.found THEN {Outcome(s1, FALSE, 1, 0, FALSE, FALSE)}
      ELSE UNION {SeekDecode(s1, subimage, d) :
                    d \in WebPDecodeRGBA(s1.dmx, g.iter.frame_num - 1,
                                         s1.encoded_live)}

\* Lines 175-197, for one result g of WebPDemuxGetFrame.
SeekFrame(s, subimage, g) ==
  LET s1 == [s EXCEPT !.m_iter = g.iter, !.ub = @ \/ g.ub]
  IN  IF g.crashed THEN {Outcome(Crash(s), FALSE, 1, 0, FALSE, FALSE)}
      ELSE IF ~g.found THEN {Outcome(s1, FALSE, 1, 0, FALSE, FALSE)}
      ELSE UNION {SeekDecode(s1, subimage, d) :
                    d \in WebPDecodeRGBA(s1.dmx, g.iter.frame_num - 1,
                                         s1.encoded_live)}

\* AlreadyCurrent with the early return left out.
AlreadyCurrentNever(s, subimage) == FALSE

\* Lines 170-173: the early return when the subimage is already current.
AlreadyCurrent(s, subimage) == s.m_subimage = subimage

seek_subimage(s, subimage, miplevel) ==
  IF subimage < 0 \/ miplevel # 0
  THEN {Outcome(s, FALSE, 0, 0, FALSE, FALSE)}
  ELSE IF AlreadyCurrent(s, subimage)
  THEN {Outcome(s, TRUE, 0, 0, FALSE, FALSE)}
  ELSE UNION {SeekFrame(s, subimage, g) :
                g \in WebPDemuxGetFrame(s, subimage + 1)}

\* --------------------------------------------------- read_native_scanline
GarbageBytes(n) == [i \in 1..n |-> 170]

\* memcpy(data, &m_decoded_image[y * m_scanline_size], m_scanline_size): the
\* bytes copied, and whether the copy read outside the raster (or from a
\* null pointer), which may fault or deliver whatever lies there.
memcpy(s, y) ==
  LET off == y * s.m_scanline_size
      n   == s.m_scanline_size
      px  == s.m_decoded_image.px
  IN  IF s.m_decoded_image # NullImage /\ off + n <= Len(px)
      THEN {[data |-> SubSeq(px, off + 1, off + n), ub |-> FALSE,
             crashed |-> FALSE]}
      ELSE {[data |-> GarbageBytes(n), ub |-> TRUE, crashed |-> FALSE],
            [data |-> <<>>, ub |-> TRUE, crashed |-> TRUE]}

\* Line 209: the row check against the canvas height.
RowInRange(s, y) == ~(y < 0 \/ y >= s.m_spec.height)

ReadRow(o, y) ==
  IF o.s.crashed \/ ~o.ret THEN {[o EXCEPT !.ret = FALSE]}
  ELSE IF ~RowInRange(o.s, y) THEN {[o EXCEPT !.ret = FALSE]}
  ELSE {[o EXCEPT !.s = IF m.crashed THEN Crash(o.s)
                        ELSE [o.s EXCEPT !.ub = @ \/ m.ub],
                  !.ret = ~m.crashed,
                  !.data = m.data] : m \in memcpy(o.s, y)}

read_native_scanline(s, subimage, miplevel, y) ==
  UNION {ReadRow(o, y) : o \in seek_subimage(s, subimage, miplevel)}

\* ------------------------------------------------------------------- open
ImageSpec(w, h, n) ==
  [width |-> w, height |-> h, nchannels |-> n, colorspace |-> "sRGB",
   movie |-> FALSE, fps |-> <<>>]

\* Lines 144-150: the animation attributes, set on m_spec from the iterator.
AnimationMetadata(s) ==
  IF s.m_iter.num_frames > 1
  THEN [s EXCEPT !.m_spec.movie = TRUE,
                 !.m_spec.fps = <<RateNum, s.m_iter.duration>>]
  ELSE s

\* Lines 152-159: the ImageBuf wrapped around m_decoded_image and the three
\* passes over it.  A null pointer, or a raster smaller than the canvas, is
\* not a buffer of the size the wrapper is told.
WrapAndNormalize(s) ==
  LET img == s.m_decoded_image
      w   == s.m_spec.width
      h   == s.m_spec.height
  IN  IF img # NullImage /\ w * h * nchannels <= Len(img.px)
      THEN {[s EXCEPT !.m_decoded_image = Normalize(img, w, h)]}
      ELSE {[s EXCEPT !.ub = TRUE], Crash(s)}

\* What open does once seek_subimage(0, 0) has returned o; the encoded_image
\* vector goes out of scope on every return.
OpenAfterSeek(o) ==
  LET gone == [o.s EXCEPT !.encoded_live = FALSE]
  IN  IF o.s.crashed \/ ~o.ret
      THEN {[o EXCEPT !.s = gone, !.ret = FALSE]}
      ELSE {[o EXCEPT !.s = n] : n \in WrapAndNormalize(AnimationMetadata(gone))}

\* Line 138: the copy of m_spec handed to the caller.
CopySpecOut(s) == [s EXCEPT !.spec = s.m_spec]

\* Lines 125-142: the demuxer is built over encoded_image, the canvas spec
\* is made and copied out, and the first frame is sought.
OpenParsed(s, f) ==
  LET s1 == [s EXCEPT !.m_demux = "live", !.dmx = f.c, !.demuxers = @ + 1,
                      !.encoded_live = TRUE,
                      !.m_scanline_size = CanvasW * nchannels,
                      !.m_spec = ImageSpec(CanvasW, CanvasH, nchannels)]
  IN  UNION {OpenAfterSeek(o) : o \in seek_subimage(CopySpecOut(s1), 0, 0)}

OpenFail(s) == Outcome(s, FALSE, 0, 0, TRUE, FALSE)

open(s, f) ==
  \* m_filename feeds the error messages alone, and m_image_size is set
  \* here before every use of it: neither carries anything between calls.
  LET m_image_size == FileSize(f.kind)
      s2 == [s EXCEPT !.m_file = "open", !.files = @ + 1]
  IN  CASE f.kind = "notregular" -> {OpenFail(s)}
        [] m_image_size = -1     -> {OpenFail(s)}
        [] m_image_size < MinHeader -> {OpenFail(s)}
        [] f.kind = "nofopen"    -> {OpenFail([s EXCEPT !.m_file = NULL])}
        [] f.kind \in {"shortheader", "notwebp", "shortread"}
                                 -> {[OpenFail(c) EXCEPT !.closed = TRUE] :
                                       c \in close(s2)}
        [] f.kind = "nodemux"    -> {OpenFail([s2 EXCEPT !.m_demux = NULL,
                                                         !.dmx = NoContainer])}
        [] OTHER                 -> OpenParsed(s2, f)

\* ---------------------------------------------------------------- actions
\* The heap objects of each kind allocated and not freed stay within MaxLive.
InBounds(s) ==
  s.images <= MaxLive /\ s.demuxers <= MaxLive /\ s.files <= MaxLive

Usable == ~crashed /\ sess # "Destroyed"

Call(op, sub, mip, y, o) ==
  [op |-> op, sub |-> sub, mip |-> mip, y |-> y, ret |-> o.ret, val |-> 0,
   gf |-> o.gf, dec |-> o.dec, err |-> o.err, closed |-> o.closed,
   data |-> o.data]

\* The decoder calls made for the subimage m_subimage names: counted from
\* the call that changes m_subimage.
Count(s, dec) ==
  decodes' = IF s.m_subimage # m_subimage THEN dec ELSE decodes + dec

\* What each call does to the reader; the threads are the caller's.
DoOpen(f) ==
  /\ Usable
  /\ opens' = opens + 1
  /\ \E o \in open(Cur, f) :
       /\ InBounds(o.s)
       /\ Commit(o.s)
       /\ sess' = IF o.ret THEN "Ready" ELSE "Failed"
       /\ last' = Call("open", 0, 0, 0, o)
       /\ Count(o.s, o.dec)

DoSeek(sub, mip) ==
  /\ Usable
  /\ \E o \in seek_subimage(Cur, sub, mip) :
       /\ InBounds(o.s)
       /\ Commit(o.s)
       /\ sess' = IF o.closed THEN "Closed" ELSE sess
       /\ last' = Call("seek_subimage", sub, mip, 0, o)
       /\ Count(o.s, o.dec)
  /\ UNCHANGED opens

DoRead(sub, mip, y) ==
  /\ Usable
  /\ \E o \in read_native_scanline(Cur, sub, mip, y) :
       /\ InBounds(o.s)
       /\ Commit(o.s)
       /\ sess' = IF o.closed THEN "Closed" ELSE sess
       /\ last' = Call("read_native_scanline", sub, mip, y, o)
       /\ Count(o.s, o.dec)
  /\ UNCHANGED opens

DoCurrent ==
  /\ Usable
  /\ last' = [NoCall EXCEPT !.op = "current_subimage", !.val = m_subimage]
  /\ UNCHANGED <<fields, sess, decodes, opens>>

DoClose ==
  /\ Usable
  /\ \E c \in close(Cur) :
       /\ Commit(c)
       /\ last' = [NoCall EXCEPT !.op = "close", !.closed = TRUE]
       /\ Count(c, 0)
  /\ sess' = "Closed"
  /\ UNCHANGED opens

\* One caller: every call runs from entry to return before the next starts,
\* and m_mutex is free again when it returns.
\* open on a reader object fresh from its constructor.
Open(f) == opens = 0 /\ DoOpen(f) /\ UNCHANGED threads

\* open on a reader object that open was called on before, closed since or
\* not: open runs neither init nor close first.
Reopen(f) == opens = 1 /\ DoOpen(f) /\ UNCHANGED threads

SeekSubimage(sub, mip) == DoSeek(sub, mip) /\ UNCHANGED threads

ReadNativeScanline(sub, mip, y) == DoRead(sub, mip, y) /\ UNCHANGED threads

CurrentSubimage == DoCurrent /\ UNCHANGED threads

Close == DoClose /\ UNCHANGED threads

\* ~WebpInput: close, and the object is gone.
Destroy ==
  /\ Usable
  /\ \E c \in close(Cur) :
       LET d == IF c.crashed THEN c
                ELSE [Gone EXCEPT !.images = c.images,
                                  !.demuxers = c.demuxers,
                                  !.files = c.files, !.ub = c.ub,
                                  !.doubleFree = c.doubleFree]
       IN  /\ Commit(d)
           /\ last' = [NoCall EXCEPT !.op = "destroy", !.closed = TRUE]
           /\ Count(d, 0)
  /\ sess' = "Destroyed"
  /\ UNCHANGED <<opens, threads>>

\* The arguments tried: every subimage from -1 to one past the last frame,
\* every row from -1 to one past the last row, and an unsupported miplevel.
Subimages == -1..MaxFrames
Rows == -1..CanvasH
SeekArgs == {<<sub, 0>> : sub \in Subimages} \cup {<<0, 1>>}
ReadArgs == {<<sub, 0, y>> : sub \in 0..MaxFrames, y \in Rows}
            \cup {<<-1, 0, 0>>, <<0, 1, 0>>}

Next ==
  \/ \E f \in Files : Open(f)
  \/ \E a \in SeekArgs : SeekSubimage(a[1], a[2])
  \/ \E a \in ReadArgs : ReadNativeScanline(a[1], a[2], a[3])
  \/ CurrentSubimage
  \/ Close
  \/ Destroy

\* One reader object, opened once.
Spec == Init /\ [][Next]_vars

\* One reader object, opened and then opened once more.
NextReopen ==
  \/ Next
  \/ \E f \in Files : Reopen(f)

SpecReopen == Init /\ [][NextReopen]_vars

\* ------------------------------------------------------------ two callers
\* Two threads calling into one opened reader.  A thread is inside a body
\* from the call's entry to its return.  read_native_scanline and
\* current_subimage take m_mutex on entry (lock_guard) and give it back on
\* return; seek_subimage takes nothing.
Idle == \A t \in Threads : pc[t] = "idle"

Enter(t, body, a) ==
  /\ Usable
  /\ pc[t] = "idle"
  /\ pc' = [pc EXCEPT ![t] = body]
  /\ args' = [args EXCEPT ![t] = a]
  /\ UNCHANGED <<fields, sess, last, decodes, opens>>

Return(t) ==
  /\ pc' = [pc EXCEPT ![t] = "idle"]
  /\ args' = [args EXCEPT ![t] = NoArgs]

Acquire(t) == lock = 0 /\ lock' = t
Release(t) == lock = t /\ lock' = 0

EnterSeek(t, sub, mip) ==
  /\ Enter(t, "seek_subimage", [sub |-> sub, mip |-> mip, y |-> 0])
  /\ UNCHANGED lock

ReturnSeek(t) ==
  /\ pc[t] = "seek_subimage"
  /\ DoSeek(args[t].sub, args[t].mip)
  /\ Return(t)
  /\ UNCHANGED lock

EnterRead(t, sub, mip, y) ==
  /\ Acquire(t)
  /\ Enter(t, "read_native_scanline", [sub |-> sub, mip |-> mip, y |-> y])

ReturnRead(t) ==
  /\ pc[t] = "read_native_scanline"
  /\ DoRead(args[t].sub, args[t].mip, args[t].y)
  /\ Return(t)
  /\ Release(t)

EnterCurrent(t) ==
  /\ Acquire(t)
  /\ Enter(t, "current_subimage", NoArgs)

ReturnCurrent(t) ==
  /\ pc[t] = "current_subimage"
  /\ DoCurrent
  /\ Return(t)
  /\ Release(t)

OpenMT(f) == Idle /\ Open(f)

CloseMT == Idle /\ Close

MTSubimages == 0..1

NextMT ==
  \/ \E f \in Files : OpenMT(f)
  \/ CloseMT
  \/ \E t \in Threads, sub \in MTSubimages : EnterSeek(t, sub, 0)
  \/ \E t \in Threads : ReturnSeek(t)
  \/ \E t \in Threads, sub \in MTSubimages : EnterRead(t, sub, 0, 0)
  \/ \E t \in Threads : ReturnRead(t)
  \/ \E t \in Threads : EnterCurrent(t)
  \/ \E t \in Threads : ReturnCurrent(t)

SpecMT == Init /\ [][NextMT]_vars

\* ----------------------------------------------------------------- claims
\* C1: seek_subimage(k, 0) on a reader whose m_subimage is already k >= 0
\* returns true, calls neither WebPDemuxGetFrame nor WebPDecodeRGBA and
\* changes no member (m_subimage, the raster and the demuxer among them); so
\* for as long as m_subimage stays k, through any run of seeks and reads of
\* frame k, the decoder has been called exactly once for it.
C1_IdempotentSeek ==
  [][/\ (/\ last'.op = "seek_subimage"
         /\ last'.mip = 0
         /\ last'.sub >= 0
         /\ m_subimage = last'.sub)
        => (last'.ret /\ last'.gf = 0 /\ last'.dec = 0 /\ fields' = fields)
     /\ (~crashed' /\ m_subimage' >= 0) => decodes' = 1]_vars

C1_Witness ==
  /\ sess = "Ready"
  /\ last.op = "seek_subimage"
  /\ last.sub = m_subimage
  /\ last.sub >= 0
  /\ last.ret
  /\ last.gf = 0
  /\ m_decoded_image # NullImage
  /\ decodes = 1

\* C2: when seek_subimage (called by open or by the caller) fails because
\* the decoder rejects the frame's bytes, m_subimage is what it was before
\* the call.
C2_DecodeFailureKeepsIndex ==
  [][(/\ last'.op \in {"open", "seek_subimage"}
      /\ last'.dec = 1
      /\ ~last'.ret
      /\ ~crashed')
     => m_subimage' = m_subimage]_vars

\* What read_native_scanline(k, 0, y) would do on session s, for every row
\* y of the canvas: whether it succeeds and the bytes it copies.
ReadsOf(s, k) ==
  [y \in 0..(CanvasH - 1) |->
     {[ret |-> o.ret, data |-> o.data, crashed |-> o.s.crashed] :
        o \in read_native_scanline(s, k, 0, y)}]

\* C3: after a seek_subimage that returns failure on a Ready reader whose
\* current frame is k (a decode failure being one of a frame the decoder
\* does reject), frame k is still current, its raster is still the live
\* one, and read_native_scanline(k, 0, y) does for every row y what it would
\* have done before the failed seek.
C3_FailedSeekKeepsFrame ==
  [][(/\ sess = "Ready"
      /\ m_subimage >= 0
      /\ m_decoded_image # NullImage
      /\ last'.op = "seek_subimage"
      /\ ~last'.ret
      /\ ~crashed'
      /\ (last'.dec = 1 => last'.sub \in dmx.bad))
     => (/\ m_subimage' = m_subimage
         /\ m_decoded_image' = m_decoded_image
         /\ ReadsOf(Cur', m_subimage) = ReadsOf(Cur, m_subimage))]_vars

\* C4: when seek_subimage (called directly or by read_native_scanline)
\* fails because WebPDemuxGetFrame finds no frame of that number, m_subimage
\* is unchanged and the decoded raster is neither freed nor replaced.
C4_FrameNotFoundKeepsState ==
  [][(/\ last'.op \in {"seek_subimage", "read_native_scanline"}
      /\ last'.gf = 1
      /\ last'.dec = 0
      /\ ~last'.ret
      /\ ~crashed')
     => (/\ m_subimage' = m_subimage
         /\ m_decoded_image' = m_decoded_image
         /\ images' = images)]_vars

C4_Witness ==
  /\ sess = "Ready"
  /\ last.op = "seek_subimage"
  /\ last.sub = dmx.nframes
  /\ last.gf = 1
  /\ last.dec = 0
  /\ ~last.ret
  /\ m_subimage >= 0
  /\ m_subimage # last.sub
  /\ m_decoded_image # NullImage

\* C5: in every reachable state at most one decoded raster is allocated and
\* not yet freed.
C5_OneRasterLive == images <= 1

\* C6: close, called by the caller or by the destructor, from any state:
\* it returns with the file handle and the raster released and with no
\* resource released a second time.
C6_CloseIdempotent ==
  last.op \in {"close", "destroy"}
    => (/\ ~crashed
        /\ ~doubleFree
        /\ m_file = NULL
        /\ m_decoded_image = NullImage)

\* C7: read_native_scanline on a reader that is not Ready (never opened,
\* open failed, closed by the caller or by a failed decode) returns failure,
\* copies nothing and touches no absent raster or demuxer.
C7_ReadsOnlyWhenReady ==
  [][(last'.op = "read_native_scanline" /\ sess # "Ready")
     => (/\ ~last'.ret
         /\ last'.data = <<>>
         /\ ~crashed'
         /\ ub' = ub)]_vars

\* C8: a scanline a successful read_native_scanline copies out of a raster
\* holding the decoded frame comes from a raster the color normalizer has
\* been applied to exactly once.
C8_NormalizedOnce ==
  (/\ last.op = "read_native_scanline"
   /\ last.ret
   /\ m_decoded_image # NullImage
   /\ m_decoded_image.px # GarbageRaster(dmx, m_subimage).px)
    => m_decoded_image.norm = 1

\* C9: on a Ready reader no two threads are inside the bodies of
\* seek_subimage, read_native_scanline or current_subimage at the same time.
C9_MutualExclusion ==
  sess = "Ready" => Cardinality({t \in Threads : pc[t] # "idle"}) <= 1

\* C10: the ImageSpec a successful open hands to its caller is marked as a
\* movie exactly when the container has more than one frame, and then
\* carries FramesPerSecond = (1000, duration of the first frame); with one
\* frame it carries neither.
C10_ReturnedSpecAnimated ==
  (last.op = "open" /\ last.ret)
    => (/\ spec.movie = (dmx.nframes > 1)
        /\ spec.fps = IF dmx.nframes > 1 THEN <<RateNum, dmx.duration>>
                      ELSE <<>>)

\* C11: when open returns success on a container with at least one frame,
\* whether the reader object is fresh or was opened before (closed since or
\* not), m_subimage is 0 and the raster is the decode of frame 0 of the
\* container this open parsed, as decoded or as open normalizes it.
C11_OpenLeavesFrameZero ==
  (last.op = "open" /\ last.ret /\ ~crashed /\ dmx.nframes >= 1)
    => (/\ m_subimage = 0
        /\ m_decoded_image \in {Raster(dmx, 0),
                                Normalize(Raster(dmx, 0), CanvasW, CanvasH)})

\* C12: on a Ready reader over a container of N frames that all decode,
\* whatever seeks came before, seek_subimage(i, 0) returns true and leaves
\* m_subimage = i for every i in 0..N-1, and returns false for i = N and for
\* every i < 0.
C12_SeekIndexRange ==
  [][(/\ sess = "Ready"
      /\ dmx.bad = {}
      /\ last'.op = "seek_subimage"
      /\ last'.mip = 0)
     => (/\ (0 <= last'.sub /\ last'.sub < dmx.nframes)
              => (last'.ret /\ m_subimage' = last'.sub)
         /\ (last'.sub >= dmx.nframes) => ~last'.ret
         /\ (last'.sub < 0) => ~last'.ret)]_vars

\* C13: the close, or the destructor, called right after an open that
\* returned false, at whichever step it failed: the call returns, nothing
\* is released a second time, and no file handle, demuxer or raster stays
\* allocated.
C13_FailedOpenClosable ==
  [][(/\ last.op = "open"
      /\ ~last.ret
      /\ ~crashed
      /\ last'.op \in {"close", "destroy"})
     => (/\ ~crashed'
         /\ ~doubleFree'
         /\ files' = 0
         /\ demuxers' = 0
         /\ images' = 0)]_vars

\* C14: read_native_scanline(k, 0, y) on a Ready reader, k a frame of a
\* container whose frames all decode, when the call leaves the reader open
\* and the process alive: it returns true exactly when 0 <= y < the canvas
\* height; when it returns false it has copied nothing; when it returns true
\* the m_scanline_size bytes it copied are those at offset
\* y * m_scanline_size inside the current raster.
C14_RowCheck ==
  [][(/\ sess = "Ready"
      /\ dmx.bad = {}
      /\ last'.op = "read_native_scanline"
      /\ last'.mip = 0
      /\ 0 <= last'.sub /\ last'.sub < dmx.nframes
      /\ ~last'.closed
      /\ ~crashed')
     => (/\ last'.ret <=> (0 <= last'.y /\ last'.y < m_spec.height)
         /\ ~last'.ret => last'.data = <<>>
         /\ last'.ret =>
              LET off == last'.y * m_scanline_size'
                  n   == m_scanline_size'
              IN  /\ off + n <= Len(m_decoded_image'.px)
                  /\ last'.data = SubSeq(m_decoded_image'.px, off + 1,
                                         off + n))]_vars

\* C15: whenever open, seek_subimage or read_native_scanline returns false,
\* the call has recorded an error message.
C15_FailureHasMessage ==
  (/\ last.op \in {"open", "seek_subimage", "read_native_scanline"}
   /\ ~last.ret
   /\ ~crashed)
    => last.err

\* C16: whenever open returns false, at whichever step, the reader holds no
\* open file handle, no demuxer and no raster.
C16_FailedOpenIsClosed ==
  (last.op = "open" /\ ~last.ret /\ ~crashed)
    => (/\ m_file = NULL
        /\ m_demux # "live"
        /\ m_decoded_image = NullImage
        /\ files = 0
        /\ demuxers = 0
        /\ images = 0)

\* C17: after every call, m_subimage is -1 while the reader has no demuxer,
\* and -1 or the index of a frame of the container its demuxer was built
\* from otherwise (a container with at least one frame); and a call that
\* changes m_subimage is one that ran seek_subimage, looked the frame up and
\* left m_subimage at the index it was asked for.
C17_IndexInRange ==
  [][(~crashed' /\ sess' # "Destroyed")
     => (/\ m_demux' = NULL => m_subimage' = -1
         /\ (m_demux' # NULL /\ dmx'.nframes >= 1)
              => (m_subimage' = -1
                  \/ (0 <= m_subimage' /\ m_subimage' < dmx'.nframes))
         /\ m_subimage' # m_subimage
              => (/\ last'.op \in {"open", "seek_subimage",
                                   "read_native_scanline"}
                  /\ last'.gf = 1
                  /\ m_subimage' = last'.sub))]_vars

\* C18: whenever read_native_scanline returns true on a Ready reader, the
\* bytes [y * m_scanline_size, (y + 1) * m_scanline_size) it copied lie
\* inside the w * h * 4 bytes of the raster the decoder returned for the
\* current frame.
C18_CopyInsideRaster ==
  (/\ sess = "Ready"
   /\ last.op = "read_native_scanline"
   /\ last.ret
   /\ ~crashed)
    => (/\ 0 <= last.y * m_scanline_size
        /\ (last.y + 1) * m_scanline_size
             <= m_decoded_image.w * m_decoded_image.h * nchannels)

\* C19: every WebPDecodeRGBA call a seek_subimage or read_native_scanline
\* call makes happens while the encoded_image bytes the demuxer was built
\* over are still allocated.
C19_EncodedBytesOutliveDemuxer ==
  [][(/\ last'.op \in {"seek_subimage", "read_native_scanline"}
      /\ last'.dec = 1)
     => encoded_live]_vars

\* The row y of frame 0 as read_native_scanline delivers it right after
\* open: cut from the raster open has normalized.
RowAfterOpen(c, y) ==
  SubSeq(Normalize(Raster(c, 0), CanvasW, CanvasH).px,
         y * CanvasW * nchannels + 1, (y + 1) * CanvasW * nchannels)

\* C20: the bytes a successful read_native_scanline(0, 0, y) on a Ready
\* reader copies out of a raster holding the decoded frame are those the
\* same read delivers right after open, whatever seeks and reads came
\* before.
C20_ReadIgnoresHistory ==
  (/\ sess = "Ready"
   /\ last.op = "read_native_scanline"
   /\ last.ret
   /\ last.sub = 0
   /\ ~crashed
   /\ m_decoded_image # NullImage
   /\ m_decoded_image.px # GarbageRaster(dmx, 0).px)
    => last.data = RowAfterOpen(dmx, last.y)

====
